---------------------------- MODULE Spec2Model ----------------------------
(***************************************************************************)
(* Model of civitAI_downloader.py: the filename sanitizer, the destination *)
(* classifier, the download worker (download_one) with its temp file and   *)
(* os.replace commit, and the retry loop of main over a thread pool.       *)
(*                                                                         *)
(* Filenames are sequences of one-character strings.  The filesystem is    *)
(* modelled with inodes: a path names an inode, an open file object holds  *)
(* an inode and its own write offset, as on POSIX.                         *)
(***************************************************************************)
EXTENDS Integers, Sequences, FiniteSets, TLC

VARIABLES
    \* ---- main() ----
    retries,      \* args.retries
    max_threads,  \* args.max_threads
    pairs,        \* read_url_file's result: sequence of [filename, url]
    pending,      \* main's `pending`: sequence of positions into pairs
    attempt,      \* the loop variable of `for attempt in range(1, retries+1)`
    mpc,          \* where main is: "start", "for", "map", "shutdown", "done"
    outcome,      \* how main ended: "Running", "AllSucceeded",
                  \* "ExhaustedRetries", "NoEntries", "Crashed"
    exit_code,    \* process exit code, -1 while running
    printed,      \* the tasks (positions in pairs) whose filename the final
                  \* failure summary prints
    \* ---- the executor of the current attempt ----
    results,      \* one future per element of pending
    nextIdx,      \* head of the executor's work queue (position in pending)
    thr,          \* worker threads: the frame of download_one each one runs
    thread_local, \* _thread_local: per worker thread, its session attribute
    \* ---- filesystem ----
    tmp,          \* cwd: sanitized name -> inode of <name>.part, 0 if absent
    dest,         \* folder -> sanitized name -> inode, 0 if absent
    dirs,         \* destination folders that exist
    inodes,       \* inode -> content (sequence of chunks)
    \* ---- history (not read by the program) ----
    failedIn,     \* per collected attempt, the tasks whose call returned False
    served,       \* per sanitized name, the response bodies the server sent
    raced,        \* names two calls downloaded at the same time
    \* ---- sanitize_filename applied to arbitrary input ----
    raw,          \* the raw filename
    once,         \* sanitize_filename(raw), or NotRun
    twice,        \* sanitize_filename(once.name), or NotRun
    \* ---- destination_folder applied to arbitrary input ----
    arg_filename, \* the filename argument
    arg_size,     \* the file_size argument
    ret_folder    \* destination_folder(arg_filename, arg_size), or "none"

vars == <<retries, max_threads, pairs, pending, attempt, mpc, outcome, exit_code,
          printed, results, nextIdx, thr, thread_local, tmp, dest, dirs, inodes,
          failedIn, served, raced, raw, once, twice, arg_filename, arg_size, ret_folder>>

mainVars == <<retries, max_threads, pairs, pending, attempt, mpc, outcome,
              exit_code, printed, results, nextIdx, thr, thread_local, tmp, dest,
              dirs, inodes, failedIn, served, raced>>

sanVars == <<raw, once, twice>>

clVars == <<arg_filename, arg_size, ret_folder>>

---------------------------------------------------------------------------
\* Bounds of the model.

\* Longest raw filename given to sanitize_filename in SpecSanitize.
MaxLen == 4
\* Longest task list read from the URL file.
MaxTasks == 2
\* Largest --retries value.
MaxRetries == 2
\* Largest --max_threads value.
MaxThreads == 2
\* Longest response body, in chunks; URL u serves a body of u chunks.
MaxChunks == 2
\* Largest whole number of GiB in a file_size given to destination_folder in
\* SpecClassify.
MaxGiB == 3

---------------------------------------------------------------------------
\* Strings as sequences of characters.

\* Characters of the raw filenames enumerated in SpecSanitize: the path
\* separator, the dot, the space, one character of the forbidden class and
\* one ordinary character.
Alphabet == {"/", ".", " ", ":", "a"}

\* The character class of the re.sub in sanitize_filename; NUL, US, DEL and
\* APC stand for the ends of the two control ranges \x00-\x1f and \x7f-\x9f.
Forbidden == {"<", ">", ":", "\"", "/", "\\", "|", "?", "*", "NUL", "US", "DEL", "APC"}

Min(S) == CHOOSE x \in S : \A y \in S : x <= y
Max(S) == CHOOSE x \in S : \A y \in S : y <= x

\* str.rfind(c) + 1: the 1-based position of the last c, 0 if there is none.
rfind(s, c) ==
    LET I == {i \in 1..Len(s) : s[i] = c}
    IN IF I = {} THEN 0 ELSE Max(I)

\* posixpath.basename: everything after the last "/".
basename(p) == SubSeq(p, rfind(p, "/") + 1, Len(p))

\* `".." in name`
contains_dotdot(s) == \E i \in 1..(Len(s) - 1) : s[i] = "." /\ s[i + 1] = "."

\* re.sub(r'[<>:"/\\|?*\x00-\x1f\x7f-\x9f]', "_", name)
re_sub(s) == [i \in 1..Len(s) |-> IF s[i] \in Forbidden THEN "_" ELSE s[i]]

\* The same substitution with "." as the placeholder character.
re_sub_dot(s) == [i \in 1..Len(s) |-> IF s[i] \in Forbidden THEN "." ELSE s[i]]

\* str.strip(chars)
strip(s, chars) ==
    LET K == {i \in 1..Len(s) : s[i] \notin chars}
    IN IF K = {} THEN <<>> ELSE SubSeq(s, Min(K), Max(K))

\* str.lower() on the letters that occur in the model's filenames.
lower(s) ==
    [i \in 1..Len(s) |->
        CASE s[i] = "P" -> "p"
          [] s[i] = "T" -> "t"
          [] s[i] = "A" -> "a"
          [] OTHER -> s[i]]

\* os.path.splitext(p)[1]: from the last dot of the last path component,
\* unless only dots precede it in that component.
splitext_ext(p) ==
    LET sepIndex == rfind(p, "/")
        dotIndex == rfind(p, ".")
    IN IF dotIndex > sepIndex
          /\ \E k \in (sepIndex + 1)..(dotIndex - 1) : p[k] # "."
       THEN SubSeq(p, dotIndex, Len(p))
       ELSE <<>>

ValueError == [ok |-> FALSE, name |-> <<>>]
Returned(n) == [ok |-> TRUE, name |-> n]

\* sanitize_filename with the placeholder "." instead of "_".
sanitize_filename_dot(name) ==
    LET b == basename(name)
    IN IF contains_dotdot(b) THEN ValueError
       ELSE LET r == strip(re_sub_dot(b), {".", " "})
            IN IF r = <<>> THEN ValueError ELSE Returned(r)

\* sanitize_filename with the ".." test made after the cleaning.
sanitize_filename_late(name) ==
    LET r == strip(re_sub(basename(name)), {".", " "})
    IN IF contains_dotdot(r) \/ r = <<>> THEN ValueError ELSE Returned(r)

\* sanitize_filename: the name returned, or ValueError.
sanitize_filename(name) ==
    LET b == basename(name)
    IN IF contains_dotdot(b) THEN ValueError
       ELSE LET r == strip(re_sub(b), {".", " "})
            IN IF r = <<>> THEN ValueError ELSE Returned(r)

---------------------------------------------------------------------------
\* Sizes, chunks and the destination classifier.

\* File sizes are byte counts of unbounded Python ints; they are kept exact as
\* gib * 1024^3 + rem with 0 <= rem < 1024^3, so that 2 * 1024^3 is
\* representable.
GiB == 1024 * 1024 * 1024
Bytes(g, r) == [gib |-> g + (r \div GiB), rem |-> r % GiB]
\* file_size > MIN_CHECKPOINT_SIZE, the strict comparison.
SizeGT(a, b) == a.gib > b.gib \/ (a.gib = b.gib /\ a.rem > b.rem)

\* a >= b
SizeGE(a, b) == a.gib > b.gib \/ (a.gib = b.gib /\ a.rem >= b.rem)

\* MIN_CHECKPOINT_SIZE = 2 * 1024 ** 3
MIN_CHECKPOINT_SIZE == Bytes(2, 0)

\* chunk_size of response.iter_content
chunk_size == 65536

\* One chunk of the model stands for a run of consecutive iter_content chunks
\* that the thread writes without another thread running in between: GiB
\* bytes, i.e. GiB \div chunk_size calls of f.write.
RunLen == GiB \div chunk_size
ChunkBytes == RunLen * chunk_size

\* The bytes of a chunk are named by the URL that serves it and its place in
\* the body; a Hole is the zero-filled gap left by a write past the end of a
\* file.  Written(ch, p) is chunk ch in a file, with the task (position in
\* pairs) whose call wrote it; the program cannot read by.
Chunk(u, i) == [u |-> u, i |-> i]
Hole == [u |-> 0, i |-> 0, by |-> 0]
Written(ch, p) == [u |-> ch.u, i |-> ch.i, by |-> p]

\* The bytes of a file with content c.
Data(c) == [k \in 1..Len(c) |-> Chunk(c[k].u, c[k].i)]

\* os.path.getsize of a file with content c
getsize(c) == Bytes(Len(c) * (ChunkBytes \div GiB), Len(c) * (ChunkBytes % GiB))

\* VALID_EXTENSIONS with ".json" accepted as well.
VALID_EXTENSIONS_json ==
    { <<".", "p", "t">>,
      <<".", "s", "a", "f", "e", "t", "e", "n", "s", "o", "r", "s">>,
      <<".", "j", "s", "o", "n">> }

VALID_EXTENSIONS ==
    { <<".", "p", "t">>,
      <<".", "s", "a", "f", "e", "t", "e", "n", "s", "o", "r", "s">> }

Folders == {"embeddings", "loras", "models"}

\* destination_folder(filename, file_size)
destination_folder(filename, file_size) ==
    LET ext == lower(splitext_ext(filename))
    IN IF ext = <<".", "p", "t">> THEN "embeddings"
       ELSE IF SizeGE(file_size, MIN_CHECKPOINT_SIZE) THEN "models"
       ELSE "loras"

---------------------------------------------------------------------------
\* The inputs of main: the task lists and the server.

URLs == 1..MaxChunks

\* HTTP status codes the server answers with.
Statuses == {200, 304, 404}

\* The body the server sends for URL u: u chunks with status 200, nothing
\* with any other status.
Body(u, status) == IF status = 200 THEN [i \in 1..u |-> Chunk(u, i)] ELSE <<>>

N_safetensors == <<"m", ".", "s", "a", "f", "e", "t", "e", "n", "s", "o", "r", "s">>
N_pt == <<"a", ".", "P", "T">>
N_json == <<"c", ".", "j", "s", "o", "n">>
N_dotdot == <<".", ".">>

Task(f, u) == [filename |-> f, url |-> u]

\* The entries a URL file is made of.
TaskPool ==
    {Task(N_safetensors, u) : u \in URLs}
        \cup {Task(N_pt, 1), Task(N_json, 1), Task(N_dotdot, 1)}

TaskLists == UNION {[1..n -> TaskPool] : n \in 0..MaxTasks}

\* The sanitized names that pass the extension gate.
ValidNames ==
    {sanitize_filename(k.filename).name :
        k \in {k \in TaskPool :
                /\ sanitize_filename(k.filename).ok
                /\ lower(splitext_ext(sanitize_filename(k.filename).name))
                      \in VALID_EXTENSIONS}}

---------------------------------------------------------------------------
\* The filesystem.

Inos == 1..(Cardinality(Folders) * Cardinality(ValidNames)
              + Cardinality(ValidNames) + MaxThreads)

Referenced(i, tm, de, th) ==
    \/ \E nm \in ValidNames : tm[nm] = i
    \/ \E f \in Folders : \E nm \in ValidNames : de[f][nm] = i
    \/ \E t \in 1..MaxThreads : th[t].fd = i

\* An inode that no path and no open file refers to is gone.
Reclaim(ino, tm, de, th) ==
    [i \in Inos |-> IF Referenced(i, tm, de, th) THEN ino[i] ELSE <<>>]

FreeIno == Min({i \in Inos : ~Referenced(i, tmp, dest, thr)})

\* f.write(chunk) at offset off of a file with content c
WriteAt(c, off, ch) ==
    [i \in 1..Max({Len(c), off + 1}) |->
        IF i = off + 1 THEN ch
        ELSE IF i <= Len(c) THEN c[i]
        ELSE Hole]

\* file_already_exists that looks in embeddings/ and loras/ only.
file_already_exists_two(filename) ==
    \E folder \in {"embeddings", "loras"} : dest[folder][filename] # 0

\* file_already_exists that also takes a leftover <filename>.part in the
\* working directory for the file.
file_already_exists_part(filename) ==
    \/ \E folder \in {"embeddings", "loras", "models"} : dest[folder][filename] # 0
    \/ tmp[filename] # 0

\* file_already_exists(filename)
file_already_exists(filename) ==
    \E folder \in {"embeddings", "loras", "models"} : dest[folder][filename] # 0

---------------------------------------------------------------------------
\* The frame of one download_one call and the future that holds its result.

NoSize == Bytes(0, 0)

\* A requests.Session object is named by the worker thread that created it:
\* thread t of the executor of attempt att.  NoSession: the thread-local
\* object has no session attribute.
NoSession == [att |-> 0, t |-> 0]
Session(t) == [att |-> attempt, t |-> t]

\* get_session with one module-level session that every thread shares.
get_session_global(t) ==
    IF \E o \in 1..MaxThreads : thread_local[o] # NoSession
    THEN thread_local[CHOOSE o \in 1..MaxThreads : thread_local[o] # NoSession]
    ELSE Session(t)

\* get_session(token) called by thread t: the session of the thread-local
\* object, created on the thread's first call.
get_session(t) ==
    IF thread_local[t] # NoSession THEN thread_local[t] ELSE Session(t)

\* A worker thread that runs no call.
Idle ==
    [pc |-> "idle", idx |-> 0, name |-> <<>>, fd |-> 0, off |-> 0, status |-> 0,
     file_size |-> NoSize, exc |-> "none", session |-> NoSession,
     att |-> 0, found |-> FALSE, get |-> FALSE, opened |-> FALSE]

\* A submitted work item that no thread has taken yet: the pair p of
\* `lambda p: (p, download_one(...))`, as its position in pairs.
Queued(p) ==
    [st |-> "queued", p |-> p, ok |-> FALSE, how |-> "none", status |-> 0,
     found |-> FALSE, get |-> FALSE, opened |-> FALSE, moved |-> FALSE]

\* The future of a finished call: ok is the value returned; how names the
\* return statement, or the exception that ended the call; status is the
\* status code of the response, 0 if there was none.  found, get, opened and
\* moved record what the call did: found the file in the existence
\* check, issued session.get, opened the temp file, moved it with os.replace.
Done(p, fr, ok, how, moved) ==
    [st |-> "done", p |-> p, ok |-> ok, how |-> how, status |-> fr.status,
     found |-> fr.found, get |-> fr.get, opened |-> fr.opened, moved |-> moved]

\* The exceptions download_one has an except clause for.
Caught == {"HTTPError", "Timeout", "RequestException", "OSError"}

\* A finished future that holds an exception instead of a value.
Raised(r) == r.st = "done" /\ r.how \notin (Caught \cup {"invalid", "unsupported", "exists", "ok"})

Threads == 1..max_threads

\* The task at position i of pending.
task(i) == pairs[pending[i]]

\* The body of the response that thread t streams.
body(t) == Body(task(thr[t].idx).url, thr[t].status)

Return(t, ok, how, moved) ==
    /\ results' = [results EXCEPT ![thr[t].idx] = Done(@.p, thr[t], ok, how, moved)]
    /\ thr' = [thr EXCEPT ![t] = Idle]

Raise(t, e) == thr' = [thr EXCEPT ![t].exc = e, ![t].pc = "finally", ![t].fd = 0]

Working == mpc \in {"map", "shutdown"}

---------------------------------------------------------------------------
\* download_one, one action per step that other threads can observe.

\* A thread takes the next work item and runs download_one up to the
\* existence check: sanitize_filename and the extension gate.  s is the
\* result of the one call of sanitize_filename.
Start(t) ==
    /\ mpc = "map"
    /\ thr[t].pc = "idle"
    /\ nextIdx <= Len(pending)
    /\ nextIdx' = nextIdx + 1
    /\ \E s \in {sanitize_filename(task(nextIdx).filename)} :
          IF ~s.ok
          THEN /\ results' = [results EXCEPT ![nextIdx] = Done(@.p, Idle, FALSE, "invalid", FALSE)]
               /\ UNCHANGED thr
          ELSE IF lower(splitext_ext(s.name)) \notin VALID_EXTENSIONS
          THEN /\ results' = [results EXCEPT ![nextIdx] = Done(@.p, Idle, FALSE, "unsupported", FALSE)]
               /\ UNCHANGED thr
          ELSE /\ results' = [results EXCEPT ![nextIdx].st = "running"]
               /\ thr' = [thr EXCEPT ![t] = [Idle EXCEPT !.pc = "exists",
                                                          !.idx = nextIdx,
                                                          !.name = s.name,
                                                          !.att = attempt]]
    /\ UNCHANGED <<retries, max_threads, pairs, pending, attempt, mpc, outcome,
                   exit_code, printed, tmp, dest, dirs, inodes, failedIn, served, raced,
                   raw, once, twice, clVars, thread_local>>

\* if file_already_exists(filename): return True
\* session = get_session(token); tmp_path = ... filename + ".part"
Exists(t) ==
    /\ Working
    /\ thr[t].pc = "exists"
    /\ LET fr == [thr[t] EXCEPT !.found = \E f \in Folders : dest[f][thr[t].name] # 0]
       IN IF file_already_exists(thr[t].name)
          THEN /\ results' = [results EXCEPT ![fr.idx] = Done(@.p, fr, TRUE, "exists", FALSE)]
               /\ thr' = [thr EXCEPT ![t] = Idle]
               /\ UNCHANGED thread_local
          ELSE /\ thr' = [thr EXCEPT ![t] = [fr EXCEPT !.pc = "get",
                                                       !.session = get_session(t)]]
               /\ thread_local' = [thread_local EXCEPT ![t] = get_session(t)]
               /\ UNCHANGED results
    /\ raced' = IF /\ ~file_already_exists(thr[t].name)
                   /\ \E o \in Threads \ {t} :
                         /\ thr[o].name = thr[t].name
                         /\ thr[o].pc \in {"get", "open", "write", "replace", "finally"}
                THEN raced \cup {thr[t].name}
                ELSE raced
    /\ UNCHANGED <<retries, max_threads, pairs, pending, attempt, mpc, outcome,
                   exit_code, printed, nextIdx, tmp, dest, dirs, inodes, failedIn,
                   served, raw, once, twice, clVars>>

\* response = session.get(...); response.raise_for_status();
\* total = int(response.headers.get("content-length", 0))
Get(t) ==
    /\ Working
    /\ thr[t].pc = "get"
    /\ \/ /\ \E e \in {"Timeout", "RequestException"} :
                thr' = [thr EXCEPT ![t].exc = e, ![t].pc = "finally", ![t].get = TRUE]
          /\ UNCHANGED served
       \/ \E s \in Statuses : \E numeric \in BOOLEAN :
            IF 400 <= s /\ s < 600
            THEN /\ thr' = [thr EXCEPT ![t].exc = "HTTPError", ![t].pc = "finally",
                                       ![t].status = s, ![t].get = TRUE]
                 /\ UNCHANGED served
            ELSE IF ~numeric
            THEN /\ thr' = [thr EXCEPT ![t].exc = "ValueError", ![t].pc = "finally",
                                       ![t].get = TRUE]
                 /\ UNCHANGED served
            ELSE /\ thr' = [thr EXCEPT ![t].status = s, ![t].pc = "open",
                                       ![t].get = TRUE]
                 /\ served' = [served EXCEPT ![thr[t].name] =
                                  @ \cup {Body(task(thr[t].idx).url, s)}]
    /\ UNCHANGED <<retries, max_threads, pairs, pending, attempt, mpc, outcome,
                   exit_code, printed, results, nextIdx, tmp, dest, dirs, inodes,
                   failedIn, raced,
                   raw, once, twice, clVars, thread_local>>

\* with open(tmp_path, "wb") as f: creates the file or truncates the one the
\* path names, or fails with OSError.
Open(t) ==
    /\ Working
    /\ thr[t].pc = "open"
    /\ \/ /\ Raise(t, "OSError")
          /\ UNCHANGED <<tmp, inodes>>
       \/ LET ino == IF tmp[thr[t].name] # 0 THEN tmp[thr[t].name] ELSE FreeIno
          IN /\ tmp' = [tmp EXCEPT ![thr[t].name] = ino]
             /\ inodes' = [inodes EXCEPT ![ino] = <<>>]
             /\ thr' = [thr EXCEPT ![t].fd = ino, ![t].off = 0, ![t].pc = "write",
                                   ![t].opened = TRUE]
    /\ UNCHANGED <<retries, max_threads, pairs, pending, attempt, mpc, outcome,
                   exit_code, printed, results, nextIdx, dest, dirs, failedIn,
                   served, raced,
                   raw, once, twice, clVars, thread_local>>

\* f.write(chunk) for the next chunk of response.iter_content
Write(t) ==
    /\ Working
    /\ thr[t].pc = "write"
    /\ thr[t].off < Len(body(t))
    /\ inodes' = [inodes EXCEPT ![thr[t].fd] =
                     WriteAt(@, thr[t].off,
                             Written(body(t)[thr[t].off + 1], pending[thr[t].idx]))]
    /\ thr' = [thr EXCEPT ![t].off = @ + 1]
    /\ UNCHANGED <<retries, max_threads, pairs, pending, attempt, mpc, outcome,
                   exit_code, printed, results, nextIdx, tmp, dest, dirs, failedIn,
                   served, raced,
                   raw, once, twice, clVars, thread_local>>

\* iter_content raises a requests exception, or f.write raises OSError: the
\* with statement closes the file and the except clause is entered.
StreamFault(t) ==
    /\ Working
    /\ thr[t].pc = "write"
    /\ \E e \in {"RequestException", "OSError"} : Raise(t, e)
    /\ inodes' = Reclaim(inodes, tmp, dest, thr')
    /\ UNCHANGED <<retries, max_threads, pairs, pending, attempt, mpc, outcome,
                   exit_code, printed, results, nextIdx, tmp, dest, dirs, failedIn,
                   served, raced,
                   raw, once, twice, clVars, thread_local>>

\* The body is exhausted: the file is closed and
\* file_size = os.path.getsize(tmp_path), FileNotFoundError if the path is gone.
Getsize(t) ==
    /\ Working
    /\ thr[t].pc = "write"
    /\ thr[t].off = Len(body(t))
    /\ IF tmp[thr[t].name] = 0
       THEN Raise(t, "OSError")
       ELSE thr' = [thr EXCEPT ![t].fd = 0, ![t].pc = "replace",
                               ![t].file_size = getsize(inodes[tmp[thr[t].name]])]
    /\ inodes' = Reclaim(inodes, tmp, dest, thr')
    /\ UNCHANGED <<retries, max_threads, pairs, pending, attempt, mpc, outcome,
                   exit_code, printed, results, nextIdx, tmp, dest, dirs, failedIn,
                   served, raced,
                   raw, once, twice, clVars, thread_local>>

\* folder = destination_folder(filename, file_size); os.makedirs(folder);
\* os.replace(tmp_path, dest); return True.  makedirs or replace may fail
\* with OSError; replace fails when tmp_path is gone.
Replace(t) ==
    /\ Working
    /\ thr[t].pc = "replace"
    /\ LET folder == destination_folder(thr[t].name, thr[t].file_size)
       IN \/ /\ Raise(t, "OSError")
             /\ UNCHANGED <<results, tmp, dest, dirs, inodes>>
          \/ /\ tmp[thr[t].name] = 0
             /\ Raise(t, "OSError")
             /\ dirs' = dirs \cup {folder}
             /\ UNCHANGED <<results, tmp, dest, inodes>>
          \/ /\ tmp[thr[t].name] # 0
             /\ dirs' = dirs \cup {folder}
             /\ dest' = [dest EXCEPT ![folder][thr[t].name] = tmp[thr[t].name]]
             /\ tmp' = [tmp EXCEPT ![thr[t].name] = 0]
             /\ Return(t, TRUE, "ok", TRUE)
             /\ inodes' = Reclaim(inodes, tmp', dest', thr')
    /\ UNCHANGED <<retries, max_threads, pairs, pending, attempt, mpc, outcome,
                   exit_code, printed, nextIdx, failedIn, served, raced,
                   raw, once, twice, clVars, thread_local>>

\* The except clauses and the finally block: tmp_path is removed if it
\* exists; a caught exception returns False, any other leaves download_one.
Finally(t) ==
    /\ Working
    /\ thr[t].pc = "finally"
    /\ tmp' = [tmp EXCEPT ![thr[t].name] = 0]
    /\ Return(t, FALSE, thr[t].exc, FALSE)
    /\ inodes' = Reclaim(inodes, tmp', dest, thr')
    /\ UNCHANGED <<retries, max_threads, pairs, pending, attempt, mpc, outcome,
                   exit_code, printed, nextIdx, dest, dirs, failedIn, served, raced,
                   raw, once, twice, clVars, thread_local>>

---------------------------------------------------------------------------
\* main

\* pairs = read_url_file(...); if not pairs: sys.exit(1); pending = pairs
ReadPairs ==
    /\ mpc = "start"
    /\ IF pairs = <<>>
       THEN /\ mpc' = "done"
            /\ outcome' = "NoEntries"
            /\ exit_code' = 1
            /\ UNCHANGED pending
       ELSE /\ mpc' = "for"
            /\ pending' = [i \in 1..Len(pairs) |-> i]
            /\ UNCHANGED <<outcome, exit_code>>
    /\ UNCHANGED <<retries, max_threads, pairs, attempt, printed, results, nextIdx,
                   thr, tmp, dest, dirs, inodes, failedIn, served, raced,
                   raw, once, twice, clVars, thread_local>>

\* The loop head with range(1, args.retries + 2): one attempt more.
For_extra ==
    /\ mpc = "for"
    /\ IF attempt + 1 <= retries + 1
       THEN /\ attempt' = attempt + 1
            /\ results' = [i \in 1..Len(pending) |-> Queued(pending[i])]
            /\ nextIdx' = 1
            /\ mpc' = "map"
            /\ UNCHANGED <<outcome, exit_code, printed>>
       ELSE /\ printed' = pending
            /\ outcome' = "ExhaustedRetries"
            /\ exit_code' = 1
            /\ mpc' = "done"
            /\ UNCHANGED <<attempt, results, nextIdx>>
    /\ UNCHANGED <<retries, max_threads, pairs, pending, thr, tmp, dest, dirs,
                   inodes, failedIn, served, raced,
                   raw, once, twice, clVars, thread_local>>

\* The head of `for attempt in range(1, args.retries + 1)`: the next attempt
\* creates the executor and submits every element of pending; when the range
\* is exhausted the else clause prints the failure summary and exits with 1.
For ==
    /\ mpc = "for"
    /\ IF attempt + 1 <= retries
       THEN /\ attempt' = attempt + 1
            /\ results' = [i \in 1..Len(pending) |-> Queued(pending[i])]
            /\ nextIdx' = 1
            /\ mpc' = "map"
            /\ UNCHANGED <<outcome, exit_code, printed>>
       ELSE /\ printed' = pending
            /\ outcome' = "ExhaustedRetries"
            /\ exit_code' = 1
            /\ mpc' = "done"
            /\ UNCHANGED <<attempt, results, nextIdx>>
    /\ UNCHANGED <<retries, max_threads, pairs, pending, thr, tmp, dest, dirs,
                   inodes, failedIn, served, raced,
                   raw, once, twice, clVars, thread_local>>

\* The list comprehension without its filter: every pair stays pending.
Failed_all(i) == SubSeq(pending, i, Len(pending))

\* The positions of pending whose call returned False, in order.
RECURSIVE Failed(_)
Failed(i) ==
    IF i > Len(pending) THEN <<>>
    ELSE IF results[i].ok THEN Failed(i + 1)
    ELSE <<pending[i]>> \o Failed(i + 1)

\* The executor hands main the results as soon as every work item has been
\* taken by a thread.
MapDone_taken == \A i \in 1..Len(pending) : results[i].st # "queued"

\* list(executor.map(...)) has consumed every future and the with block has
\* joined the worker threads: every call has returned.
MapDone == \A i \in 1..Len(pending) : results[i].st = "done"

\* The with block ends: the worker threads have been joined and their
\* thread-local data is gone.
\* pending = [pair for pair, ok in results if not ok]; if not pending: break
Collect ==
    /\ mpc = "map"
    /\ MapDone
    /\ \A i \in 1..Len(pending) : ~Raised(results[i])
    /\ pending' = Failed(1)
    /\ failedIn' = Append(failedIn, {pending[i] : i \in {j \in 1..Len(pending) : ~results[j].ok}})
    /\ IF Failed(1) = <<>>
       THEN /\ outcome' = "AllSucceeded"
            /\ exit_code' = 0
            /\ mpc' = "done"
       ELSE /\ mpc' = "for"
            /\ UNCHANGED <<outcome, exit_code>>
    /\ thread_local' = [t \in 1..MaxThreads |-> NoSession]
    /\ UNCHANGED <<retries, max_threads, pairs, attempt, printed, results, nextIdx,
                   thr, tmp, dest, dirs, inodes, served, raced,
                   raw, once, twice, clVars>>

\* The result iterator of executor.map reaches, in submission order, a future
\* that holds an exception: it cancels the futures no thread has taken and
\* the exception leaves list(...).
CollectRaise ==
    /\ mpc = "map"
    /\ \E k \in 1..Len(pending) :
          /\ Raised(results[k])
          /\ \A j \in 1..(k - 1) : results[j].st = "done" /\ ~Raised(results[j])
    /\ results' = [i \in 1..Len(pending) |->
                      IF results[i].st = "queued"
                      THEN [results[i] EXCEPT !.st = "cancelled"]
                      ELSE results[i]]
    /\ nextIdx' = Len(pending) + 1
    /\ mpc' = "shutdown"
    /\ UNCHANGED <<retries, max_threads, pairs, pending, attempt, outcome, exit_code,
                   printed, thr, tmp, dest, dirs, inodes, failedIn, served, raced,
                   raw, once, twice, clVars, thread_local>>

\* The with block's executor.shutdown(wait=True) has joined the running
\* threads; the exception leaves main and the interpreter exits with 1.
Shutdown ==
    /\ mpc = "shutdown"
    /\ \A t \in 1..MaxThreads : thr[t].pc = "idle"
    /\ outcome' = "Crashed"
    /\ exit_code' = 1
    /\ mpc' = "done"
    /\ thread_local' = [t \in 1..MaxThreads |-> NoSession]
    /\ UNCHANGED <<retries, max_threads, pairs, pending, attempt, printed, results,
                   nextIdx, thr, tmp, dest, dirs, inodes, failedIn, served, raced,
                   raw, once, twice, clVars>>

---------------------------------------------------------------------------
\* The program.

NotRun == [ok |-> FALSE, name |-> <<"not run">>]

Init ==
    /\ retries \in (-1)..MaxRetries
    /\ max_threads \in 1..MaxThreads
    /\ pairs \in TaskLists
    /\ pending = <<>>
    /\ attempt = 0
    /\ mpc = "start"
    /\ outcome = "Running"
    /\ exit_code = -1
    /\ printed = <<>>
    /\ results = <<>>
    /\ nextIdx = 1
    /\ thr = [t \in 1..MaxThreads |-> Idle]
    /\ thread_local = [t \in 1..MaxThreads |-> NoSession]
    /\ tmp = [nm \in ValidNames |-> 0]
    /\ dest = [f \in Folders |-> [nm \in ValidNames |-> 0]]
    /\ dirs = {}
    /\ inodes = [i \in Inos |-> <<>>]
    /\ failedIn = <<>>
    /\ served = [nm \in ValidNames |-> {}]
    /\ raced = {}
    /\ raw = <<>>
    /\ once = NotRun
    /\ twice = NotRun
    /\ arg_filename = <<>>
    /\ arg_size = NoSize
    /\ ret_folder = "none"

Next ==
    \/ ReadPairs
    \/ For
    \/ Collect
    \/ CollectRaise
    \/ Shutdown
    \/ \E t \in Threads : Start(t)
    \/ \E t \in Threads : Exists(t)
    \/ \E t \in Threads : Get(t)
    \/ \E t \in Threads : Open(t)
    \/ \E t \in Threads : Write(t)
    \/ \E t \in Threads : StreamFault(t)
    \/ \E t \in Threads : Getsize(t)
    \/ \E t \in Threads : Replace(t)
    \/ \E t \in Threads : Finally(t)

Spec == Init /\ [][Next]_vars

\* The interpreter keeps running main and the worker threads: while a step
\* of the program is possible, a step is taken.
FairSpec == Spec /\ WF_vars(Next)

---------------------------------------------------------------------------
\* sanitize_filename on arbitrary raw filenames.

\* All sequences over S of length at most n.
SeqsUpTo(S, n) == UNION {[1..k -> S] : k \in 0..n}

InitSanitize ==
    /\ raw \in SeqsUpTo(Alphabet, MaxLen)
    /\ once = NotRun
    /\ twice = NotRun
    /\ retries = 0
    /\ max_threads = 1
    /\ pairs = <<>>
    /\ pending = <<>>
    /\ attempt = 0
    /\ mpc = "done"
    /\ outcome = "Running"
    /\ exit_code = -1
    /\ printed = <<>>
    /\ results = <<>>
    /\ nextIdx = 1
    /\ thr = [t \in 1..MaxThreads |-> Idle]
    /\ thread_local = [t \in 1..MaxThreads |-> NoSession]
    /\ tmp = [nm \in ValidNames |-> 0]
    /\ dest = [f \in Folders |-> [nm \in ValidNames |-> 0]]
    /\ dirs = {}
    /\ inodes = [i \in Inos |-> <<>>]
    /\ failedIn = <<>>
    /\ served = [nm \in ValidNames |-> {}]
    /\ raced = {}
    /\ arg_filename = <<>>
    /\ arg_size = NoSize
    /\ ret_folder = "none"

\* filename = sanitize_filename(raw)
Sanitize ==
    /\ once = NotRun
    /\ once' = sanitize_filename(raw)
    /\ UNCHANGED <<raw, twice>>
    /\ UNCHANGED <<mainVars, clVars>>

\* sanitize_filename applied to the name a first call returned
SanitizeAgain ==
    /\ once.ok
    /\ twice = NotRun
    /\ twice' = sanitize_filename(once.name)
    /\ UNCHANGED <<raw, once>>
    /\ UNCHANGED <<mainVars, clVars>>

NextSanitize == Sanitize \/ SanitizeAgain

SpecSanitize == InitSanitize /\ [][NextSanitize]_vars

---------------------------------------------------------------------------
\* Claims about sanitize_filename (checked under SpecSanitize).

C10_Idempotent ==
    (once.ok /\ twice # NotRun) => (twice.ok /\ twice.name = once.name)

\* A raw filename that the first call changed, after the second call.
C10_Witness ==
    /\ once.ok
    /\ once.name # raw
    /\ "_" \in {once.name[i] : i \in 1..Len(once.name)}
    /\ twice = once

---------------------------------------------------------------------------
\* Claims about main and download_one (checked under Spec).

Quiescent == \A t \in 1..MaxThreads : thr[t].pc = "idle"

\* The folders that hold a file named nm.
FoldersHolding(nm) == {f \in Folders : dest[f][nm] # 0}

\* The sanitized filename of task p.
NameOf(p) == sanitize_filename(pairs[p].filename).name

\* Task p passes sanitize_filename and fails the extension gate.
Unsupported(p) ==
    LET s == sanitize_filename(pairs[p].filename)
    IN s.ok /\ lower(splitext_ext(s.name)) \notin VALID_EXTENSIONS

\* C1: with retries = R >= 1, main ends in AllSucceeded with exit code 0
\* exactly when some attempt k <= R leaves no failed task, and otherwise ends
\* in ExhaustedRetries with a non-zero exit code and prints exactly the tasks
\* that failed in every one of the R attempts.
C1_RetryOutcome ==
    (mpc = "done" /\ pairs # <<>> /\ retries >= 1) =>
        LET clean == \E k \in 1..retries : k <= Len(failedIn) /\ failedIn[k] = {}
            always == {p \in 1..Len(pairs) :
                          \A k \in 1..retries : k <= Len(failedIn) /\ p \in failedIn[k]}
        IN IF clean
           THEN outcome = "AllSucceeded" /\ exit_code = 0
           ELSE /\ outcome = "ExhaustedRetries"
                /\ exit_code # 0
                /\ {printed[i] : i \in 1..Len(printed)} = always

\* C2: when two calls for the same sanitized filename both pass the existence
\* check and download at the same time, then once the calls have returned at
\* most one folder holds a file of that name (exactly one if a call returned
\* True) and its content is one complete response body.
C2_RaceLeavesOneCompleteFile ==
    \A nm \in raced :
        Quiescent =>
            /\ Cardinality(FoldersHolding(nm)) <= 1
            /\ \A f \in FoldersHolding(nm) : Data(inodes[dest[f][nm]]) \in served[nm]
            /\ (\E i \in 1..Len(results) : results[i].ok /\ NameOf(results[i].p) = nm)
                  => Cardinality(FoldersHolding(nm)) = 1

\* C3: a task with an unsupported extension is Skipped: no attempt after the
\* first has it in its pending set, and a run in which every task left in
\* pending is such a task ends in AllSucceeded with exit code 0.
C3_SkippedNotRetried ==
    /\ (attempt >= 2 /\ mpc \in {"map", "shutdown"}) =>
          \A i \in 1..Len(pending) : ~Unsupported(pending[i])
    /\ (/\ mpc = "done"
        /\ pairs # <<>>
        /\ retries >= 1
        /\ \A i \in 1..Len(pending) : Unsupported(pending[i])) =>
          outcome = "AllSucceeded" /\ exit_code = 0

\* C4: no error leaves download_one: no future holds an exception, no work
\* item is cancelled and main is not ended by an exception.
C4_NoErrorEscapes ==
    /\ \A i \in 1..Len(results) : ~Raised(results[i]) /\ results[i].st # "cancelled"
    /\ mpc # "shutdown"
    /\ outcome # "Crashed"

\* C5: when a call that had opened its temp file returns after a transport
\* fault in the stream, it returns False, <filename>.part does not exist and
\* no destination folder holds a file of that name with data the call wrote
\* (a consequence of the claim's "no file exists at the final destination").
C5_FaultLeavesNothing ==
    [][\A t \in 1..MaxThreads :
          (/\ thr[t].pc = "finally"
           /\ thr[t].opened
           /\ thr[t].exc = "RequestException"
           /\ thr'[t].pc = "idle") =>
             /\ ~results'[thr[t].idx].ok
             /\ tmp'[thr[t].name] = 0
             /\ \A f \in {g \in Folders : dest'[g][thr[t].name] # 0} :
                   \A k \in 1..Len(inodes'[dest'[f][thr[t].name]]) :
                       inodes'[dest'[f][thr[t].name]][k].by # pending[thr[t].idx]]_vars

\* C6: in every reachable state every file under a final destination path
\* holds one complete response body served for that filename.
C6_DestAlwaysComplete ==
    \A f \in Folders : \A nm \in ValidNames :
        dest[f][nm] # 0 => Data(inodes[dest[f][nm]]) \in served[nm]

\* C7: a call whose existence check found the file in any of the three
\* folders has returned True from the check without session.get, without
\* opening a temp file and without os.replace.
C7_ExistingFileShortCircuits ==
    /\ \A t \in 1..MaxThreads : ~thr[t].found
    /\ \A i \in 1..Len(results) :
          results[i].found =>
              /\ results[i].st = "done"
              /\ results[i].ok
              /\ results[i].how = "exists"
              /\ ~results[i].get
              /\ ~results[i].opened
              /\ ~results[i].moved

\* A call for a small .safetensors file (classified loras) that found the
\* name in models/ and returned True.
C7_Witness ==
    \E i \in 1..Len(results) :
        /\ results[i].found
        /\ results[i].how = "exists"
        /\ pairs[results[i].p].url = 1
        /\ destination_folder(NameOf(results[i].p), getsize(Body(1, 200))) = "loras"
        /\ dest["models"][NameOf(results[i].p)] # 0
        /\ dest["loras"][NameOf(results[i].p)] = 0

\* C8: attempts are barriers: every running call of download_one belongs to
\* the current attempt, and main is at the loop head or past the loop only
\* when no call is running.
C8_AttemptsAreBarriers ==
    /\ \A t \in 1..MaxThreads : thr[t].pc # "idle" => thr[t].att = attempt
    /\ mpc \in {"for", "done"} => Quiescent

\* Two calls of the second attempt running at the same time.
C8_Witness ==
    /\ attempt = 2
    /\ max_threads = 2
    /\ \A t \in 1..2 : thr[t].pc \notin {"idle", "exists"} /\ thr[t].att = 2

---------------------------------------------------------------------------
\* destination_folder on arbitrary filenames and sizes.

N_pt_lower == <<"a", ".", "p", "t">>
N_pt_mixed == <<"a", ".", "P", "t">>
N_pt_mixed2 == <<"a", ".", "p", "T">>

\* Filenames with the extension .pt in every letter case.
PtNames == {N_pt, N_pt_lower, N_pt_mixed, N_pt_mixed2}

\* The file sizes around every whole number of GiB up to MaxGiB.
ClassifySizes == {Bytes(g, r) : g \in 0..MaxGiB, r \in {0, 1, GiB - 1}}

InitClassify ==
    /\ arg_filename \in PtNames \cup {N_safetensors}
    /\ arg_size \in ClassifySizes
    /\ ret_folder = "none"
    /\ raw = <<>>
    /\ once = NotRun
    /\ twice = NotRun
    /\ retries = 0
    /\ max_threads = 1
    /\ pairs = <<>>
    /\ pending = <<>>
    /\ attempt = 0
    /\ mpc = "done"
    /\ outcome = "Running"
    /\ exit_code = -1
    /\ printed = <<>>
    /\ results = <<>>
    /\ nextIdx = 1
    /\ thr = [t \in 1..MaxThreads |-> Idle]
    /\ thread_local = [t \in 1..MaxThreads |-> NoSession]
    /\ tmp = [nm \in ValidNames |-> 0]
    /\ dest = [f \in Folders |-> [nm \in ValidNames |-> 0]]
    /\ dirs = {}
    /\ inodes = [i \in Inos |-> <<>>]
    /\ failedIn = <<>>
    /\ served = [nm \in ValidNames |-> {}]
    /\ raced = {}

\* folder = destination_folder(filename, file_size)
Classify ==
    /\ ret_folder = "none"
    /\ ret_folder' = destination_folder(arg_filename, arg_size)
    /\ UNCHANGED <<arg_filename, arg_size>>
    /\ UNCHANGED <<mainVars, sanVars>>

NextClassify == Classify

SpecClassify == InitClassify /\ [][NextClassify]_vars

\* C11: destination_folder returns "embeddings" for every filename with the
\* extension .pt in any letter case at every size; for the extension
\* .safetensors it returns "loras" for every size below 2 * 1024^3 and
\* "models" for every size from 2 * 1024^3 on, the boundary included.
C11_Classifier ==
    ret_folder # "none" =>
        /\ arg_filename \in PtNames => ret_folder = "embeddings"
        /\ arg_filename = N_safetensors =>
              ret_folder = (IF arg_size.gib < 2 THEN "loras" ELSE "models")

\* A .safetensors file of exactly 2 * 1024^3 bytes, classified.
C11_Witness ==
    /\ arg_filename = N_safetensors
    /\ arg_size = [gib |-> 2, rem |-> 0]
    /\ ret_folder = "models"

---------------------------------------------------------------------------
\* Further claims about main and download_one (checked under Spec).

\* The steps of download_one that use tmp_path after it has been opened:
\* writing, measuring and renaming, removing.
UsesTmp == {"write", "replace", "finally"}

\* C12: no two running calls of download_one use the same temp file path:
\* while a call is writing its temp file, the path still names the file it
\* opened and no other call writes to, measures, renames or removes that path.
C12_TempPathsDisjoint ==
    \A t \in 1..MaxThreads :
        thr[t].pc = "write" =>
            /\ tmp[thr[t].name] = thr[t].fd
            /\ \A o \in 1..MaxThreads \ {t} :
                  thr[o].pc \in UsesTmp => thr[o].name # thr[t].name

\* The set of the elements of a sequence.
Range(q) == {q[i] : i \in 1..Len(q)}

C14_FolderFromOwnBody ==
    [][\A t \in 1..MaxThreads :
          (/\ thr[t].pc = "replace"
           /\ thr'[t].pc = "idle"
           /\ results'[thr[t].idx].ok) =>
             LET folder == destination_folder(thr[t].name, getsize(body(t)))
             IN /\ dest'[folder][thr[t].name] = tmp[thr[t].name]
                /\ dest'[folder][thr[t].name] # dest[folder][thr[t].name]]_vars

\* C15: no session is used by two worker threads: the session a running call
\* holds, and the session a thread keeps in its thread-local object, was
\* created by that thread of the current executor, and no two threads keep
\* the same session.
C15_SessionPerThread ==
    /\ \A t \in 1..MaxThreads :
          /\ thr[t].session # NoSession =>
                thr[t].session = [att |-> thr[t].att, t |-> t]
          /\ thr[t].pc \in {"get", "open", "write", "replace"} =>
                thr[t].session # NoSession
          /\ thread_local[t] # NoSession =>
                thread_local[t] = [att |-> attempt, t |-> t]
    /\ \A t, o \in 1..MaxThreads :
          (t # o /\ thread_local[t] # NoSession) => thread_local[t] # thread_local[o]

\* In the second attempt both threads are about to send a request, each
\* through the session it created.
C15_Witness ==
    /\ attempt = 2
    /\ \A t \in 1..2 :
          /\ thr[t].pc = "get"
          /\ thr[t].session = [att |-> 2, t |-> t]
          /\ thread_local[t] = thr[t].session

\* Task p fails sanitize_filename or has an extension other than .pt and
\* .safetensors (in any letter case).
Rejected(p) ==
    LET s == sanitize_filename(pairs[p].filename)
    IN \/ ~s.ok
       \/ lower(splitext_ext(s.name)) \notin
             { <<".", "p", "t">>,
               <<".", "s", "a", "f", "e", "t", "e", "n", "s", "o", "r", "s">> }

\* C16: a task whose filename fails sanitization or whose extension is not
\* .pt or .safetensors ends with False before the existence check and the
\* HTTP GET: its call never runs past the extension gate, issues no request
\* and creates no temp file, no folder and no destination file.
C16_RejectedBeforeSideEffects ==
    /\ [](/\ \A t \in 1..MaxThreads :
                thr[t].pc # "idle" => ~Rejected(pending[thr[t].idx])
          /\ \A i \in 1..Len(results) :
                (results[i].st = "done" /\ Rejected(results[i].p)) =>
                    /\ ~results[i].ok
                    /\ ~results[i].found
                    /\ ~results[i].get
                    /\ ~results[i].opened
                    /\ ~results[i].moved)
    /\ [][\A i \in 1..Len(results) :
             (/\ i <= Len(results')
              /\ results[i].st = "queued"
              /\ results'[i].st = "done"
              /\ Rejected(results[i].p)) =>
                 UNCHANGED <<tmp, dest, dirs, inodes, served, thread_local>>]_vars

\* One task was rejected by sanitize_filename and one by the extension gate.
C16_Witness ==
    /\ Len(results) = 2
    /\ \E i, j \in 1..2 :
          /\ results[i].how = "invalid"
          /\ results[j].how = "unsupported"

\* C18: for every --retries value and every non-empty task list, a terminal
\* state AllSucceeded or ExhaustedRetries is reported only after attempt 1
\* has dispatched every input task and has been collected.
C18_FirstAttemptAlwaysRuns ==
    outcome \in {"AllSucceeded", "ExhaustedRetries"} =>
        /\ attempt >= 1
        /\ Len(failedIn) >= 1

\* C19: a call that received a response with a status code outside 200-299
\* returns False through the HTTPError clause and has neither opened a temp
\* file nor moved a file into a destination folder.
C19_Non2xxFails ==
    /\ \A t \in 1..MaxThreads :
          (thr[t].status # 0 /\ thr[t].status \notin 200..299) =>
              /\ thr[t].pc = "finally"
              /\ thr[t].exc = "HTTPError"
              /\ ~thr[t].opened
    /\ \A i \in 1..Len(results) :
          (/\ results[i].st = "done"
           /\ results[i].status # 0
           /\ results[i].status \notin 200..299) =>
              /\ ~results[i].ok
              /\ results[i].how = "HTTPError"
              /\ ~results[i].opened
              /\ ~results[i].moved

\* C20: a call that returned True leaves a file of its sanitized filename in
\* one of the three folders, and when main reaches AllSucceeded every task of
\* the input list has such a file.
C20_SuccessMeansFilePresent ==
    /\ \A i \in 1..Len(results) :
          (results[i].st = "done" /\ results[i].ok) =>
              /\ sanitize_filename(pairs[results[i].p].filename).ok
              /\ NameOf(results[i].p) \in ValidNames
              /\ FoldersHolding(NameOf(results[i].p)) # {}
    /\ outcome = "AllSucceeded" =>
          \A p \in 1..Len(pairs) :
              /\ sanitize_filename(pairs[p].filename).ok
              /\ NameOf(p) \in ValidNames
              /\ FoldersHolding(NameOf(p)) # {}

\* AllSucceeded after a retry: of two tasks with different filenames one was
\* downloaded in the first attempt and the other in the second.
C20_Witness ==
    /\ outcome = "AllSucceeded"
    /\ attempt = 2
    /\ Len(pairs) = 2
    /\ pairs[1].filename # pairs[2].filename
    /\ results[1].how = "ok"

---------------------------------------------------------------------------
\* Termination of main (checked under FairSpec).

\* A call of download_one ended with an exception instead of returning.
Escaped == \E i \in 1..Len(results) : Raised(results[i])

===========================================================================
